---------------------------- MODULE Spec2Model ----------------------------
(***************************************************************************)
(* The smart door of examples/complex_project: a SmartDoor controller that *)
(* owns a Servo (the lock) and a Contractor (the linear actuator).         *)
(*                                                                         *)
(* The program is single-threaded.  Every public call runs to completion;  *)
(* the model executes it one assignment at a time, with a program counter  *)
(* pc and a stack of return labels, so that the states a call passes       *)
(* through are states of the model.  pc = "idle" is the state between two  *)
(* public calls.                                                           *)
(***************************************************************************)
EXTENDS Integers, Sequences, FiniteSets, TLC

\* Largest value of openAttempts at which the model still calls open().
MaxOpenAttempts == 4

---------------------------------------------------------------------------
\* SmartDoor::DoorState
CLOSED_LOCKED == "CLOSED_LOCKED"
CLOSED_UNLOCKED == "CLOSED_UNLOCKED"
OPENING == "OPENING"
OPEN == "OPEN"
CLOSING == "CLOSING"
ERROR_STATE == "ERROR_STATE"

\* Contractor::State
RETRACTED == "RETRACTED"
EXTENDING == "EXTENDING"
EXTENDED == "EXTENDED"
RETRACTING == "RETRACTING"
ERROR == "ERROR"

\* SmartDoor::MAX_ATTEMPTS
MAX_ATTEMPTS == 3

\* Servo::minAngle, Servo::maxAngle: set by the constructor, never assigned again.
minAngle == 0
maxAngle == 180

\* The angles lockDoor() and unlockDoor() pass to Servo::setAngle.
LOCKED_ANGLE == 0
UNLOCKED_ANGLE == 90

\* The angle Servo::calibrate homes to, and the Servo constructor's angle.
CALIBRATED_ANGLE == 0
DEFAULT_ANGLE == 90

\* Contractor positions: retracted, extended, and the midpoint of stop().
POS_RETRACTED == 0
POS_EXTENDED == 100
POS_MIDPOINT == 50

\* Contractor constructor's speed.
DEFAULT_SPEED == 5

\* Contractor::setSpeed accepts newSpeed in 1..10.
MIN_SPEED == 1
MAX_SPEED == 10

\* The arguments the model passes to Contractor::setSpeed are 0..MaxSpeedArg.
MaxSpeedArg == 11

VARIABLES
    \* SmartDoor
    currentState,     \* SmartDoor::currentState
    isSystemReady,    \* SmartDoor::isSystemReady
    openAttempts,     \* SmartDoor::openAttempts
    \* Servo (lockServo)
    currentAngle,     \* Servo::currentAngle
    isCalibrated,     \* Servo::isCalibrated
    \* Contractor (doorActuator)
    contractorState,  \* Contractor::currentState
    currentPosition,  \* Contractor::currentPosition
    isInitialized,    \* Contractor::isInitialized
    speed,            \* Contractor::speed
    \* control
    pc,               \* the statement about to run; "idle" between public calls
    stack,            \* return labels of the calls in progress, innermost first
    ret,              \* the value the last non-void call returned
    \* history (read by the properties only)
    op,               \* the public call in progress, or the last one completed
    pre,              \* the program state when that call was made
    everInit,         \* SmartDoor::initialize() has returned true at least once
    gateFails         \* number of open() calls that failed the safety gate

doorVars == <<currentState, isSystemReady, openAttempts>>
servoVars == <<currentAngle, isCalibrated>>
contractorVars == <<contractorState, currentPosition, isInitialized, speed>>
ctlVars == <<pc, stack, ret>>
histVars == <<op, pre, everInit, gateFails>>
vars == <<doorVars, servoVars, contractorVars, ctlVars, histVars>>

---------------------------------------------------------------------------
\* The program state a public call starts from, and the call before it.
Snapshot ==
    [ currentState |-> currentState,
      isSystemReady |-> isSystemReady,
      openAttempts |-> openAttempts,
      currentAngle |-> currentAngle,
      isCalibrated |-> isCalibrated,
      contractorState |-> contractorState,
      currentPosition |-> currentPosition,
      isInitialized |-> isInitialized,
      prevOp |-> op,
      prevRet |-> ret,
      prevState |-> pre.currentState,
      prevReady |-> pre.isSystemReady ]

\* SmartDoor::SmartDoor, Servo::Servo, Contractor::Contractor
Init ==
    /\ currentState = CLOSED_LOCKED
    /\ isSystemReady = FALSE
    /\ openAttempts = 0
    /\ currentAngle = DEFAULT_ANGLE
    /\ isCalibrated = FALSE
    /\ contractorState = RETRACTED
    /\ currentPosition = POS_RETRACTED
    /\ isInitialized = FALSE
    /\ speed = DEFAULT_SPEED
    /\ pc = "idle"
    /\ stack = <<>>
    /\ ret = TRUE
    /\ op = "none"
    /\ pre = [ currentState |-> CLOSED_LOCKED,
               isSystemReady |-> FALSE,
               openAttempts |-> 0,
               currentAngle |-> DEFAULT_ANGLE,
               isCalibrated |-> FALSE,
               contractorState |-> RETRACTED,
               currentPosition |-> POS_RETRACTED,
               isInitialized |-> FALSE,
               prevOp |-> "none",
               prevRet |-> TRUE,
               prevState |-> CLOSED_LOCKED,
               prevReady |-> FALSE ]
    /\ everInit = FALSE
    /\ gateFails = 0

---------------------------------------------------------------------------
\* Control: a public call, a nested call, a plain jump, a return.

\* A caller outside the class makes the public call o (entry label entry).
Invoke(o, entry) ==
    /\ pc = "idle"
    /\ pc' = entry
    /\ stack' = <<"idle">>
    /\ op' = o
    /\ pre' = Snapshot
    /\ UNCHANGED <<ret, everInit, gateFails>>
    /\ UNCHANGED <<doorVars, servoVars, contractorVars>>

\* Call the routine at entry; it returns to label back.
Call(entry, back) ==
    /\ pc' = entry
    /\ stack' = <<back>> \o stack
    /\ UNCHANGED ret

Goto(label) ==
    /\ pc' = label
    /\ UNCHANGED <<stack, ret>>

\* return v;
Return(v) ==
    /\ pc' = Head(stack)
    /\ stack' = Tail(stack)
    /\ ret' = v

\* return; (a void routine)
ReturnVoid ==
    /\ pc' = Head(stack)
    /\ stack' = Tail(stack)
    /\ UNCHANGED ret

---------------------------------------------------------------------------
\* Servo

\* Servo::calibrate: currentAngle = 0;
Servo_calibrate_angle ==
    /\ pc = "Servo_calibrate"
    /\ currentAngle' = CALIBRATED_ANGLE
    /\ Goto("Servo_calibrate_flag")
    /\ UNCHANGED <<isCalibrated, doorVars, contractorVars, histVars>>

\* Servo::calibrate: isCalibrated = true; return true;
Servo_calibrate_flag ==
    /\ pc = "Servo_calibrate_flag"
    /\ isCalibrated' = TRUE
    /\ Return(TRUE)
    /\ UNCHANGED <<currentAngle, doorVars, contractorVars, histVars>>

\* Servo::setAngle(angle): the range check; an uncalibrated servo only warns.
Servo_setAngle_ok(angle) == ~(angle < minAngle \/ angle > maxAngle)

\* Servo::setAngle(angle) as one step: currentAngle = angle unless out of range.
Servo_setAngle(angle) ==
    /\ currentAngle' = IF Servo_setAngle_ok(angle) THEN angle ELSE currentAngle
    /\ Return(Servo_setAngle_ok(angle))
    /\ UNCHANGED <<isCalibrated, doorVars, contractorVars, histVars>>

---------------------------------------------------------------------------
\* Contractor

\* Contractor::initialize: currentState = RETRACTING;
Contractor_initialize_retracting ==
    /\ pc = "Contractor_initialize"
    /\ contractorState' = RETRACTING
    /\ Goto("Contractor_initialize_position")
    /\ UNCHANGED <<currentPosition, isInitialized, speed, doorVars, servoVars, histVars>>

\* Contractor::initialize: currentPosition = 0;
Contractor_initialize_position ==
    /\ pc = "Contractor_initialize_position"
    /\ currentPosition' = POS_RETRACTED
    /\ Goto("Contractor_initialize_retracted")
    /\ UNCHANGED <<contractorState, isInitialized, speed, doorVars, servoVars, histVars>>

\* Contractor::initialize: currentState = RETRACTED;
Contractor_initialize_retracted ==
    /\ pc = "Contractor_initialize_retracted"
    /\ contractorState' = RETRACTED
    /\ Goto("Contractor_initialize_flag")
    /\ UNCHANGED <<currentPosition, isInitialized, speed, doorVars, servoVars, histVars>>

\* Contractor::initialize: isInitialized = true; return true;
Contractor_initialize_flag ==
    /\ pc = "Contractor_initialize_flag"
    /\ isInitialized' = TRUE
    /\ Return(TRUE)
    /\ UNCHANGED <<contractorState, currentPosition, speed, doorVars, servoVars, histVars>>

\* Faulty variant of Contractor_extend_begin: the isInitialized check is inverted.
Contractor_extend_begin_invertedCheck ==
    /\ pc = "Contractor_extend"
    /\ IF isInitialized
          THEN Return(FALSE) /\ UNCHANGED contractorState
          ELSE IF contractorState = EXTENDED
                  THEN Return(TRUE) /\ UNCHANGED contractorState
                  ELSE contractorState' = EXTENDING /\ Goto("Contractor_extend_position")
    /\ UNCHANGED <<currentPosition, isInitialized, speed, doorVars, servoVars, histVars>>

\* Contractor::extend: the two early returns, else currentState = EXTENDING;
Contractor_extend_begin ==
    /\ pc = "Contractor_extend"
    /\ IF ~isInitialized
          THEN Return(FALSE) /\ UNCHANGED contractorState
          ELSE IF contractorState = EXTENDED
                  THEN Return(TRUE) /\ UNCHANGED contractorState
                  ELSE contractorState' = EXTENDING /\ Goto("Contractor_extend_position")
    /\ UNCHANGED <<currentPosition, isInitialized, speed, doorVars, servoVars, histVars>>

\* Contractor::extend: currentPosition = 100;
Contractor_extend_position ==
    /\ pc = "Contractor_extend_position"
    /\ currentPosition' = POS_EXTENDED
    /\ Goto("Contractor_extend_extended")
    /\ UNCHANGED <<contractorState, isInitialized, speed, doorVars, servoVars, histVars>>

\* Faulty variant of Contractor_extend_extended: the state is left at EXTENDING.
Contractor_extend_extended_notSettled ==
    /\ pc = "Contractor_extend_extended"
    /\ Return(TRUE)
    /\ UNCHANGED <<contractorState, currentPosition, isInitialized, speed, doorVars,
                   servoVars, histVars>>

\* Contractor::extend: currentState = EXTENDED; return true;
Contractor_extend_extended ==
    /\ pc = "Contractor_extend_extended"
    /\ contractorState' = EXTENDED
    /\ Return(TRUE)
    /\ UNCHANGED <<currentPosition, isInitialized, speed, doorVars, servoVars, histVars>>

\* Faulty variant of Contractor_retract_begin: the isInitialized check is missing.
Contractor_retract_begin_noInitCheck ==
    /\ pc = "Contractor_retract"
    /\ IF contractorState = RETRACTED
          THEN Return(TRUE) /\ UNCHANGED contractorState
          ELSE contractorState' = RETRACTING /\ Goto("Contractor_retract_position")
    /\ UNCHANGED <<currentPosition, isInitialized, speed, doorVars, servoVars, histVars>>

\* Contractor::retract: the two early returns, else currentState = RETRACTING;
Contractor_retract_begin ==
    /\ pc = "Contractor_retract"
    /\ IF ~isInitialized
          THEN Return(FALSE) /\ UNCHANGED contractorState
          ELSE IF contractorState = RETRACTED
                  THEN Return(TRUE) /\ UNCHANGED contractorState
                  ELSE contractorState' = RETRACTING /\ Goto("Contractor_retract_position")
    /\ UNCHANGED <<currentPosition, isInitialized, speed, doorVars, servoVars, histVars>>

\* Faulty variant of Contractor_retract_position: the position is not reset.
Contractor_retract_position_kept ==
    /\ pc = "Contractor_retract_position"
    /\ Goto("Contractor_retract_retracted")
    /\ UNCHANGED <<contractorState, currentPosition, isInitialized, speed, doorVars,
                   servoVars, histVars>>

\* Contractor::retract: currentPosition = 0;
Contractor_retract_position ==
    /\ pc = "Contractor_retract_position"
    /\ currentPosition' = POS_RETRACTED
    /\ Goto("Contractor_retract_retracted")
    /\ UNCHANGED <<contractorState, isInitialized, speed, doorVars, servoVars, histVars>>

\* Contractor::retract: currentState = RETRACTED; return true;
Contractor_retract_retracted ==
    /\ pc = "Contractor_retract_retracted"
    /\ contractorState' = RETRACTED
    /\ Return(TRUE)
    /\ UNCHANGED <<currentPosition, isInitialized, speed, doorVars, servoVars, histVars>>

\* Contractor::stop: a moving actuator snaps to the nearer settled state.
Contractor_stop ==
    /\ pc = "Contractor_stop"
    /\ contractorState' =
          IF contractorState = EXTENDING \/ contractorState = RETRACTING
             THEN (IF currentPosition > POS_MIDPOINT THEN EXTENDED ELSE RETRACTED)
             ELSE contractorState
    /\ ReturnVoid
    /\ UNCHANGED <<currentPosition, isInitialized, speed, doorVars, servoVars, histVars>>

\* Contractor::setSpeed(newSpeed): out of 1..10 ? return false : speed = newSpeed; return true;
Contractor_setSpeed ==
    /\ pc = "Contractor_setSpeed"
    /\ \E newSpeed \in 0..MaxSpeedArg :
          IF newSpeed < MIN_SPEED \/ newSpeed > MAX_SPEED
             THEN Return(FALSE) /\ UNCHANGED speed
             ELSE speed' = newSpeed /\ Return(TRUE)
    /\ UNCHANGED <<contractorState, currentPosition, isInitialized, doorVars, servoVars,
                   histVars>>

\* Contractor::isReady
Contractor_isReady == isInitialized /\ contractorState # ERROR

---------------------------------------------------------------------------
\* SmartDoor

\* SmartDoor::lockDoor: return lockServo->setAngle(0) succeeded.
SmartDoor_lockDoor ==
    /\ pc = "SmartDoor_lockDoor"
    /\ Servo_setAngle(LOCKED_ANGLE)

\* Faulty variant of SmartDoor_unlockDoor: the locked angle is passed.
SmartDoor_unlockDoor_wrongAngle ==
    /\ pc = "SmartDoor_unlockDoor"
    /\ Servo_setAngle(LOCKED_ANGLE)

\* SmartDoor::unlockDoor: return lockServo->setAngle(90) succeeded.
SmartDoor_unlockDoor ==
    /\ pc = "SmartDoor_unlockDoor"
    /\ Servo_setAngle(UNLOCKED_ANGLE)

\* Faulty variant of isSafeToOperate: only the error state is checked.
isSafeToOperate_errorOnly == currentState # ERROR_STATE

\* SmartDoor::isSafeToOperate
isSafeToOperate ==
    /\ isSystemReady
    /\ currentState # ERROR_STATE
    /\ isCalibrated
    /\ Contractor_isReady

\* SmartDoor::initialize: lockServo->calibrate()
SmartDoor_initialize_begin ==
    /\ pc = "SmartDoor_initialize"
    /\ Call("Servo_calibrate", "SmartDoor_initialize_1")
    /\ UNCHANGED <<doorVars, servoVars, contractorVars, histVars>>

\* SmartDoor::initialize: calibration failed ? ERROR_STATE : doorActuator->initialize()
SmartDoor_initialize_1 ==
    /\ pc = "SmartDoor_initialize_1"
    /\ IF ~ret
          THEN currentState' = ERROR_STATE /\ Return(FALSE)
          ELSE UNCHANGED currentState /\ Call("Contractor_initialize", "SmartDoor_initialize_2")
    /\ UNCHANGED <<isSystemReady, openAttempts, servoVars, contractorVars, histVars>>

\* SmartDoor::initialize: actuator initialization failed ? ERROR_STATE : lockDoor()
SmartDoor_initialize_2 ==
    /\ pc = "SmartDoor_initialize_2"
    /\ IF ~ret
          THEN currentState' = ERROR_STATE /\ Return(FALSE)
          ELSE UNCHANGED currentState /\ Call("SmartDoor_lockDoor", "SmartDoor_initialize_3")
    /\ UNCHANGED <<isSystemReady, openAttempts, servoVars, contractorVars, histVars>>

\* SmartDoor::initialize: lock failed ? ERROR_STATE : isSystemReady = true;
SmartDoor_initialize_3 ==
    /\ pc = "SmartDoor_initialize_3"
    /\ IF ~ret
          THEN currentState' = ERROR_STATE /\ Return(FALSE) /\ UNCHANGED isSystemReady
          ELSE isSystemReady' = TRUE /\ Goto("SmartDoor_initialize_4")
                 /\ UNCHANGED currentState
    /\ UNCHANGED <<openAttempts, servoVars, contractorVars, histVars>>

\* Faulty variant of SmartDoor_initialize_4: currentState is not assigned.
SmartDoor_initialize_4_stateKept ==
    /\ pc = "SmartDoor_initialize_4"
    /\ Goto("SmartDoor_initialize_5")
    /\ UNCHANGED <<doorVars, servoVars, contractorVars, histVars>>

\* SmartDoor::initialize: currentState = CLOSED_LOCKED;
SmartDoor_initialize_4 ==
    /\ pc = "SmartDoor_initialize_4"
    /\ currentState' = CLOSED_LOCKED
    /\ Goto("SmartDoor_initialize_5")
    /\ UNCHANGED <<isSystemReady, openAttempts, servoVars, contractorVars, histVars>>

\* Faulty variant of SmartDoor_initialize_5: openAttempts is not cleared.
SmartDoor_initialize_5_attemptsKept ==
    /\ pc = "SmartDoor_initialize_5"
    /\ Return(TRUE)
    /\ everInit' = TRUE
    /\ UNCHANGED <<doorVars, servoVars, contractorVars, op, pre, gateFails>>

\* SmartDoor::initialize: openAttempts = 0; return true;
SmartDoor_initialize_5 ==
    /\ pc = "SmartDoor_initialize_5"
    /\ openAttempts' = 0
    /\ Return(TRUE)
    /\ everInit' = TRUE
    /\ UNCHANGED <<currentState, isSystemReady, servoVars, contractorVars, op, pre, gateFails>>

\* Faulty variant of SmartDoor_open_begin: openAttempts++ runs on every call,
\* before the gate, instead of only when the gate fails.
SmartDoor_open_begin_countsEveryCall ==
    /\ pc = "SmartDoor_open"
    /\ openAttempts' = openAttempts + 1
    /\ IF ~isSafeToOperate
          THEN /\ gateFails' = gateFails + 1
               /\ Goto("SmartDoor_open_unsafe")
               /\ UNCHANGED currentState
          ELSE /\ UNCHANGED gateFails
               /\ IF currentState = OPEN
                     THEN Return(TRUE) /\ UNCHANGED currentState
                     ELSE currentState' = OPENING
                            /\ Call("SmartDoor_unlockDoor", "SmartDoor_open_1")
    /\ UNCHANGED <<isSystemReady, servoVars, contractorVars, op, pre, everInit>>

\* Faulty variant of SmartDoor_open_begin: the already-open return is missing.
SmartDoor_open_begin_noEarlyReturn ==
    /\ pc = "SmartDoor_open"
    /\ IF ~isSafeToOperate
          THEN /\ openAttempts' = openAttempts + 1
               /\ gateFails' = gateFails + 1
               /\ Goto("SmartDoor_open_unsafe")
               /\ UNCHANGED currentState
          ELSE /\ UNCHANGED <<openAttempts, gateFails>>
               /\ currentState' = OPENING
               /\ Call("SmartDoor_unlockDoor", "SmartDoor_open_1")
    /\ UNCHANGED <<isSystemReady, servoVars, contractorVars, op, pre, everInit>>

\* SmartDoor::open: the safety gate (openAttempts++ when it fails), the
\* already-open return, else currentState = OPENING; unlockDoor()
SmartDoor_open_begin ==
    /\ pc = "SmartDoor_open"
    /\ IF ~isSafeToOperate
          THEN /\ openAttempts' = openAttempts + 1
               /\ gateFails' = gateFails + 1
               /\ Goto("SmartDoor_open_unsafe")
               /\ UNCHANGED currentState
          ELSE /\ UNCHANGED <<openAttempts, gateFails>>
               /\ IF currentState = OPEN
                     THEN Return(TRUE) /\ UNCHANGED currentState
                     ELSE currentState' = OPENING
                            /\ Call("SmartDoor_unlockDoor", "SmartDoor_open_1")
    /\ UNCHANGED <<isSystemReady, servoVars, contractorVars, op, pre, everInit>>

\* Faulty variant of SmartDoor_open_unsafe: > in place of >=.
SmartDoor_open_unsafe_offByOne ==
    /\ pc = "SmartDoor_open_unsafe"
    /\ currentState' = IF openAttempts > MAX_ATTEMPTS THEN ERROR_STATE ELSE currentState
    /\ Return(FALSE)
    /\ UNCHANGED <<isSystemReady, openAttempts, servoVars, contractorVars, histVars>>

\* SmartDoor::open: if (openAttempts >= MAX_ATTEMPTS) currentState = ERROR_STATE; return false;
SmartDoor_open_unsafe ==
    /\ pc = "SmartDoor_open_unsafe"
    /\ currentState' = IF openAttempts >= MAX_ATTEMPTS THEN ERROR_STATE ELSE currentState
    /\ Return(FALSE)
    /\ UNCHANGED <<isSystemReady, openAttempts, servoVars, contractorVars, histVars>>

\* SmartDoor::open: unlock failed ? ERROR_STATE : currentState = CLOSED_UNLOCKED; doorActuator->extend()
SmartDoor_open_1 ==
    /\ pc = "SmartDoor_open_1"
    /\ IF ~ret
          THEN currentState' = ERROR_STATE /\ Return(FALSE)
          ELSE currentState' = CLOSED_UNLOCKED
                 /\ Call("Contractor_extend", "SmartDoor_open_2")
    /\ UNCHANGED <<isSystemReady, openAttempts, servoVars, contractorVars, histVars>>

\* SmartDoor::open: extend failed ? ERROR_STATE : currentState = OPEN;
SmartDoor_open_2 ==
    /\ pc = "SmartDoor_open_2"
    /\ IF ~ret
          THEN currentState' = ERROR_STATE /\ Return(FALSE)
          ELSE currentState' = OPEN /\ Goto("SmartDoor_open_3")
    /\ UNCHANGED <<isSystemReady, openAttempts, servoVars, contractorVars, histVars>>

\* SmartDoor::open: openAttempts = 0; return true;
SmartDoor_open_3 ==
    /\ pc = "SmartDoor_open_3"
    /\ openAttempts' = 0
    /\ Return(TRUE)
    /\ UNCHANGED <<currentState, isSystemReady, servoVars, contractorVars, histVars>>

\* Faulty variant of SmartDoor_close_begin: a failed gate counts as an attempt
\* and escalates, as it does in open().
SmartDoor_close_begin_countsAttempt ==
    /\ pc = "SmartDoor_close"
    /\ IF ~isSafeToOperate
          THEN /\ openAttempts' = openAttempts + 1
               /\ currentState' = IF openAttempts + 1 >= MAX_ATTEMPTS
                                     THEN ERROR_STATE ELSE currentState
               /\ Return(FALSE)
          ELSE /\ UNCHANGED openAttempts
               /\ IF currentState = CLOSED_LOCKED
                     THEN Return(TRUE) /\ UNCHANGED currentState
                     ELSE currentState' = CLOSING
                            /\ Call("Contractor_retract", "SmartDoor_close_1")
    /\ UNCHANGED <<isSystemReady, servoVars, contractorVars, histVars>>

\* SmartDoor::close: the safety gate, the already-closed return, else
\* currentState = CLOSING; doorActuator->retract()
SmartDoor_close_begin ==
    /\ pc = "SmartDoor_close"
    /\ IF ~isSafeToOperate
          THEN Return(FALSE) /\ UNCHANGED currentState
          ELSE IF currentState = CLOSED_LOCKED
                  THEN Return(TRUE) /\ UNCHANGED currentState
                  ELSE currentState' = CLOSING
                         /\ Call("Contractor_retract", "SmartDoor_close_1")
    /\ UNCHANGED <<isSystemReady, openAttempts, servoVars, contractorVars, histVars>>

\* SmartDoor::close: retract failed ? ERROR_STATE : currentState = CLOSED_UNLOCKED; lockDoor()
SmartDoor_close_1 ==
    /\ pc = "SmartDoor_close_1"
    /\ IF ~ret
          THEN currentState' = ERROR_STATE /\ Return(FALSE)
          ELSE currentState' = CLOSED_UNLOCKED
                 /\ Call("SmartDoor_lockDoor", "SmartDoor_close_2")
    /\ UNCHANGED <<isSystemReady, openAttempts, servoVars, contractorVars, histVars>>

\* SmartDoor::close: lock failed ? ERROR_STATE : currentState = CLOSED_LOCKED; return true;
SmartDoor_close_2 ==
    /\ pc = "SmartDoor_close_2"
    /\ IF ~ret
          THEN currentState' = ERROR_STATE /\ Return(FALSE)
          ELSE currentState' = CLOSED_LOCKED /\ Return(TRUE)
    /\ UNCHANGED <<isSystemReady, openAttempts, servoVars, contractorVars, histVars>>

\* SmartDoor::emergencyStop: doorActuator->stop()
SmartDoor_emergencyStop_begin ==
    /\ pc = "SmartDoor_emergencyStop"
    /\ Call("Contractor_stop", "SmartDoor_emergencyStop_1")
    /\ UNCHANGED <<doorVars, servoVars, contractorVars, histVars>>

\* Faulty variant of SmartDoor_emergencyStop_1: the comparison is inverted.
SmartDoor_emergencyStop_1_inverted ==
    /\ pc = "SmartDoor_emergencyStop_1"
    /\ currentState' = IF currentPosition < POS_MIDPOINT THEN OPEN ELSE CLOSED_UNLOCKED
    /\ ReturnVoid
    /\ UNCHANGED <<isSystemReady, openAttempts, servoVars, contractorVars, histVars>>

\* Faulty variant of SmartDoor_emergencyStop_1: the attempt counter is cleared.
SmartDoor_emergencyStop_1_clearsAttempts ==
    /\ pc = "SmartDoor_emergencyStop_1"
    /\ currentState' = IF currentPosition > POS_MIDPOINT THEN OPEN ELSE CLOSED_UNLOCKED
    /\ openAttempts' = 0
    /\ ReturnVoid
    /\ UNCHANGED <<isSystemReady, servoVars, contractorVars, histVars>>

\* SmartDoor::emergencyStop: currentState = position > 50 ? OPEN : CLOSED_UNLOCKED;
SmartDoor_emergencyStop_1 ==
    /\ pc = "SmartDoor_emergencyStop_1"
    /\ currentState' = IF currentPosition > POS_MIDPOINT THEN OPEN ELSE CLOSED_UNLOCKED
    /\ ReturnVoid
    /\ UNCHANGED <<isSystemReady, openAttempts, servoVars, contractorVars, histVars>>

\* SmartDoor::reset: not CLOSED_LOCKED ? close() : isSystemReady = false; initialize()
SmartDoor_reset_begin ==
    /\ pc = "SmartDoor_reset"
    /\ IF currentState # CLOSED_LOCKED
          THEN Call("SmartDoor_close", "SmartDoor_reset_1") /\ UNCHANGED isSystemReady
          ELSE isSystemReady' = FALSE
                 /\ Call("SmartDoor_initialize", "SmartDoor_reset_2")
    /\ UNCHANGED <<currentState, openAttempts, servoVars, contractorVars, histVars>>

\* Faulty variant of SmartDoor_reset_1: the result of close() is ignored.
SmartDoor_reset_1_ignoresClose ==
    /\ pc = "SmartDoor_reset_1"
    /\ isSystemReady' = FALSE
    /\ Call("SmartDoor_initialize", "SmartDoor_reset_2")
    /\ UNCHANGED <<currentState, openAttempts, servoVars, contractorVars, histVars>>

\* SmartDoor::reset: close failed ? return false : isSystemReady = false; initialize()
SmartDoor_reset_1 ==
    /\ pc = "SmartDoor_reset_1"
    /\ IF ~ret
          THEN Return(FALSE) /\ UNCHANGED isSystemReady
          ELSE isSystemReady' = FALSE
                 /\ Call("SmartDoor_initialize", "SmartDoor_reset_2")
    /\ UNCHANGED <<currentState, openAttempts, servoVars, contractorVars, histVars>>

\* SmartDoor::reset: return initialize();
SmartDoor_reset_2 ==
    /\ pc = "SmartDoor_reset_2"
    /\ Return(ret)
    /\ UNCHANGED <<doorVars, servoVars, contractorVars, histVars>>

---------------------------------------------------------------------------
\* The public calls a client of SmartDoor makes between two completed calls.
Invoke_initialize == Invoke("initialize", "SmartDoor_initialize")

\* open() is called only while the counter is below the model's bound.
Invoke_open == openAttempts < MaxOpenAttempts /\ Invoke("open", "SmartDoor_open")

Invoke_close == Invoke("close", "SmartDoor_close")

Invoke_emergencyStop == Invoke("emergencyStop", "SmartDoor_emergencyStop")

Invoke_reset == Invoke("reset", "SmartDoor_reset")

\* One step of the routine the program counter is in.
Step ==
    \/ Servo_calibrate_angle
    \/ Servo_calibrate_flag
    \/ Contractor_initialize_retracting
    \/ Contractor_initialize_position
    \/ Contractor_initialize_retracted
    \/ Contractor_initialize_flag
    \/ Contractor_extend_begin
    \/ Contractor_extend_position
    \/ Contractor_extend_extended
    \/ Contractor_retract_begin
    \/ Contractor_retract_position
    \/ Contractor_retract_retracted
    \/ Contractor_stop
    \/ SmartDoor_lockDoor
    \/ SmartDoor_unlockDoor
    \/ SmartDoor_initialize_begin
    \/ SmartDoor_initialize_1
    \/ SmartDoor_initialize_2
    \/ SmartDoor_initialize_3
    \/ SmartDoor_initialize_4
    \/ SmartDoor_initialize_5
    \/ SmartDoor_open_begin
    \/ SmartDoor_open_unsafe
    \/ SmartDoor_open_1
    \/ SmartDoor_open_2
    \/ SmartDoor_open_3
    \/ SmartDoor_close_begin
    \/ SmartDoor_close_1
    \/ SmartDoor_close_2
    \/ SmartDoor_emergencyStop_begin
    \/ SmartDoor_emergencyStop_1
    \/ SmartDoor_reset_begin
    \/ SmartDoor_reset_1
    \/ SmartDoor_reset_2

Next ==
    \/ Invoke_initialize
    \/ Invoke_open
    \/ Invoke_close
    \/ Invoke_emergencyStop
    \/ Invoke_reset
    \/ Step

Spec == Init /\ [][Next]_vars

---------------------------------------------------------------------------
\* The Contractor on its own: the public calls a client of a Contractor makes.
Invoke_Contractor_initialize == Invoke("Contractor_initialize", "Contractor_initialize")

Invoke_Contractor_extend == Invoke("Contractor_extend", "Contractor_extend")

Invoke_Contractor_retract == Invoke("Contractor_retract", "Contractor_retract")

Invoke_Contractor_stop == Invoke("Contractor_stop", "Contractor_stop")

Invoke_Contractor_setSpeed == Invoke("Contractor_setSpeed", "Contractor_setSpeed")

\* One step of the Contractor method the program counter is in.
ContractorStep ==
    \/ Contractor_initialize_retracting
    \/ Contractor_initialize_position
    \/ Contractor_initialize_retracted
    \/ Contractor_initialize_flag
    \/ Contractor_extend_begin
    \/ Contractor_extend_position
    \/ Contractor_extend_extended
    \/ Contractor_retract_begin
    \/ Contractor_retract_position
    \/ Contractor_retract_retracted
    \/ Contractor_stop
    \/ Contractor_setSpeed

NextContractor ==
    \/ Invoke_Contractor_initialize
    \/ Invoke_Contractor_extend
    \/ Invoke_Contractor_retract
    \/ Invoke_Contractor_stop
    \/ Invoke_Contractor_setSpeed
    \/ ContractorStep

SpecContractor == Init /\ [][NextContractor]_vars

---------------------------------------------------------------------------
TypeOK ==
    /\ currentState \in {CLOSED_LOCKED, CLOSED_UNLOCKED, OPENING, OPEN, CLOSING, ERROR_STATE}
    /\ isSystemReady \in BOOLEAN
    /\ openAttempts \in 0..MaxOpenAttempts
    /\ currentAngle \in minAngle..maxAngle
    /\ isCalibrated \in BOOLEAN
    /\ contractorState \in {RETRACTED, EXTENDING, EXTENDED, RETRACTING, ERROR}
    /\ currentPosition \in POS_RETRACTED..POS_EXTENDED
    /\ isInitialized \in BOOLEAN
    /\ speed \in MIN_SPEED..MAX_SPEED
    /\ ret \in BOOLEAN
    /\ everInit \in BOOLEAN
    /\ gateFails \in 0..MaxOpenAttempts

---------------------------------------------------------------------------
\* Properties of the controller.

\* The public call o has returned and no other call has been made since.
Completed(o) == pc = "idle" /\ op = o

\* C1: in every reachable state, the constructed one included, a door in
\* CLOSED_LOCKED has its lock at the locked angle 0 and its actuator at 0.
C1_ClosedLockedMeansLocked ==
    currentState = CLOSED_LOCKED =>
        currentAngle = LOCKED_ANGLE /\ currentPosition = POS_RETRACTED

\* C2: between public calls, a door in OPEN has its lock at the unlocked
\* angle 90 and its actuator at position 100.
C2_OpenMeansUnlockedExtended ==
    (pc = "idle" /\ currentState = OPEN) =>
        currentAngle = UNLOCKED_ANGLE /\ currentPosition = POS_EXTENDED

\* C2 happens: emergencyStop() has returned and left the door OPEN.
C2_Witness == Completed("emergencyStop") /\ currentState = OPEN

\* C3: the actuator is never away from position 0 while the lock is at the
\* locked angle 0, in any state a controller operation passes through.
C3_NeverExtendedWhileLocked ==
    ~(currentPosition > POS_RETRACTED /\ currentAngle = LOCKED_ANGLE)

\* C4 as stated: a call that starts in ERROR_STATE and ends in another state
\* is a reset() that returned true.
C4_ErrorLeftOnlyByReset ==
    (pc = "idle" /\ op # "none" /\ pre.currentState = ERROR_STATE
        /\ currentState # ERROR_STATE)
    => (op = "reset" /\ ret = TRUE)

\* C4, amended: a call of open(), close() or reset() that starts in
\* ERROR_STATE stays in ERROR_STATE throughout and returns false; a call of
\* initialize() that starts there returns true in CLOSED_LOCKED, and a call of
\* emergencyStop() ends in CLOSED_UNLOCKED or OPEN.
C4_ErrorKeptByOpenCloseReset ==
    /\ (op \in {"open", "close", "reset"} /\ pre.currentState = ERROR_STATE)
        => (currentState = ERROR_STATE /\ (pc = "idle" => ret = FALSE))
    /\ (Completed("initialize") /\ pre.currentState = ERROR_STATE)
        => (currentState = CLOSED_LOCKED /\ ret = TRUE)
    /\ (Completed("emergencyStop") /\ pre.currentState = ERROR_STATE)
        => currentState \in {CLOSED_UNLOCKED, OPEN}

\* C4 happens: close() was called in ERROR_STATE and has returned.
C4_Witness == Completed("close") /\ pre.currentState = ERROR_STATE

\* The safety gate evaluated on the state the current call started from.
PreSafe ==
    /\ pre.isSystemReady
    /\ pre.currentState # ERROR_STATE
    /\ pre.isCalibrated
    /\ pre.isInitialized /\ pre.contractorState # ERROR

\* C5: an unsafe controller with openAttempts = 0 has had no open() fail the
\* gate; the first and the second open() that fail the gate return false and
\* leave currentState as it was, the third returns false in ERROR_STATE.
C5_ThirdUnsafeOpenForcesError ==
    /\ (pc = "idle" /\ ~isSafeToOperate /\ openAttempts = 0) => gateFails = 0
    /\ (Completed("open") /\ ~PreSafe) =>
          /\ ret = FALSE
          /\ gateFails >= 1
          /\ gateFails \in {1, 2} => currentState = pre.currentState
          /\ gateFails = MAX_ATTEMPTS => currentState = ERROR_STATE

\* C5 happens: the third failing open() has moved the door to ERROR_STATE.
C5_Witness ==
    /\ Completed("open") /\ ~PreSafe /\ gateFails = MAX_ATTEMPTS
    /\ pre.currentState # ERROR_STATE /\ currentState = ERROR_STATE

\* C6: when open() has returned true, openAttempts is 0.
C6_SuccessfulOpenClearsAttempts ==
    (Completed("open") /\ ret = TRUE) => openAttempts = 0

\* C6 happens: open() returned true for a door that was already OPEN, on a
\* controller whose earlier open() calls had failed the gate.
C6_Witness ==
    Completed("open") /\ ret = TRUE /\ pre.currentState = OPEN /\ gateFails > 0

\* C7: a reset() called in ERROR_STATE changes nothing and returns false.
C7_ResetInErrorFails ==
    (op = "reset" /\ pre.currentState = ERROR_STATE) =>
        /\ currentState = ERROR_STATE
        /\ isSystemReady = pre.isSystemReady
        /\ openAttempts = pre.openAttempts
        /\ currentAngle = pre.currentAngle
        /\ currentPosition = pre.currentPosition
        /\ pc = "idle" => ret = FALSE

\* C7 happens: reset() was called in ERROR_STATE and has returned.
C7_Witness == Completed("reset") /\ pre.currentState = ERROR_STATE

\* C8: while initialize() has never returned true, open() and close() leave
\* the lock angle, the actuator position and the actuator state as they were
\* and return false.
C8_NothingMovesBeforeInitialize ==
    (op \in {"open", "close"} /\ ~everInit) =>
        /\ currentAngle = pre.currentAngle
        /\ currentPosition = pre.currentPosition
        /\ contractorState = pre.contractorState
        /\ pc = "idle" => ret = FALSE

\* C8 happens: close() has returned on a controller never initialized.
C8_Witness == Completed("close") /\ ~everInit /\ ret = FALSE

\* C9: on an initialized controller in CLOSED_LOCKED, open() returns true in
\* OPEN with angle 90 and position 100, and a close() called next returns true
\* in the state initialize() leaves: CLOSED_LOCKED, angle 0, position 0.
C9_OpenThenCloseRoundTrip ==
    /\ (Completed("open") /\ everInit /\ pre.currentState = CLOSED_LOCKED) =>
          /\ ret = TRUE
          /\ currentState = OPEN
          /\ currentAngle = UNLOCKED_ANGLE
          /\ currentPosition = POS_EXTENDED
    /\ (Completed("close") /\ everInit /\ pre.prevOp = "open"
          /\ pre.prevState = CLOSED_LOCKED) =>
          /\ ret = TRUE
          /\ currentState = CLOSED_LOCKED
          /\ currentAngle = LOCKED_ANGLE
          /\ currentPosition = POS_RETRACTED
          /\ contractorState = RETRACTED
          /\ isSystemReady
          /\ openAttempts = 0

\* C9 happens: close() has returned after an open() from CLOSED_LOCKED.
C9_Witness ==
    /\ Completed("close") /\ everInit
    /\ pre.prevOp = "open" /\ pre.prevState = CLOSED_LOCKED
    /\ pre.currentState = OPEN /\ currentState = CLOSED_LOCKED

\* C10: an open() called on a door that is OPEN changes nothing in any state
\* it passes through and returns true.
C10_OpenWhenOpenIsNoOp ==
    (op = "open" /\ pre.currentState = OPEN) =>
        /\ currentState = OPEN
        /\ currentAngle = pre.currentAngle
        /\ currentPosition = pre.currentPosition
        /\ openAttempts = pre.openAttempts
        /\ isSystemReady = pre.isSystemReady
        /\ pc = "idle" => ret = TRUE

\* C10 happens: open() was called on an OPEN door and has returned.
C10_Witness == Completed("open") /\ pre.currentState = OPEN

\* C11: emergencyStop() ends in OPEN when the actuator position is above 50
\* and in CLOSED_UNLOCKED otherwise, whatever state it was called in; it never
\* ends in ERROR_STATE.
C11_EmergencyStopMidpointRule ==
    Completed("emergencyStop") =>
        /\ currentPosition > POS_MIDPOINT => currentState = OPEN
        /\ currentPosition <= POS_MIDPOINT => currentState = CLOSED_UNLOCKED
        /\ currentState # ERROR_STATE

\* C11 happens: emergencyStop() was called in ERROR_STATE and has returned.
C11_Witness == Completed("emergencyStop") /\ pre.currentState = ERROR_STATE

\* C12: between public calls, a door in CLOSED_UNLOCKED has its actuator at
\* position 0 and its lock at the unlocked angle 90.
C12_ClosedUnlockedMeansUnlocked ==
    (pc = "idle" /\ currentState = CLOSED_UNLOCKED) =>
        currentPosition = POS_RETRACTED /\ currentAngle = UNLOCKED_ANGLE

\* The state initialize() leaves.
Initialized ==
    /\ currentState = CLOSED_LOCKED
    /\ currentAngle = LOCKED_ANGLE
    /\ currentPosition = POS_RETRACTED
    /\ contractorState = RETRACTED
    /\ isSystemReady
    /\ openAttempts = 0

\* C13: initialize() called on a ready controller returns true in the state
\* Initialized; called again right after, it starts from that state, returns
\* true and ends in it again.
C13_InitializeIdempotent ==
    /\ (Completed("initialize") /\ pre.isSystemReady) => (ret = TRUE /\ Initialized)
    /\ (Completed("initialize") /\ pre.prevOp = "initialize" /\ pre.prevReady) =>
          /\ pre.prevRet = TRUE
          /\ pre.currentState = CLOSED_LOCKED
          /\ pre.currentAngle = LOCKED_ANGLE
          /\ pre.currentPosition = POS_RETRACTED
          /\ pre.contractorState = RETRACTED
          /\ pre.isSystemReady
          /\ pre.openAttempts = 0
          /\ ret = TRUE
          /\ Initialized

\* C13 happens: a second initialize() in a row has returned, the first one
\* having been called on a ready controller with the door OPEN.
C13_Witness ==
    /\ Completed("initialize") /\ pre.prevOp = "initialize" /\ pre.prevReady
    /\ pre.prevState = OPEN

\* The program counter is inside Contractor::extend, or where it returns to
\* in open().
InExtend ==
    pc \in {"Contractor_extend", "Contractor_extend_position",
            "Contractor_extend_extended", "SmartDoor_open_2"}

\* The program counter is inside Contractor::retract called by close().
InRetract ==
    pc \in {"Contractor_retract", "Contractor_retract_position",
            "Contractor_retract_retracted"}

\* C14: in open() the actuator has not moved when the lock is set to 90, and
\* the extension runs with the lock at 90 and the door in CLOSED_UNLOCKED; in
\* close() the lock has not moved while the actuator retracts, and the lock is
\* set to 0 with the actuator at 0 and the door in CLOSED_UNLOCKED.
C14_UnlockBeforeExtendRetractBeforeLock ==
    /\ pc = "SmartDoor_unlockDoor" =>
          currentPosition = pre.currentPosition /\ currentState = OPENING
    /\ pc = "SmartDoor_open_1" => currentAngle = UNLOCKED_ANGLE
    /\ InExtend => currentAngle = UNLOCKED_ANGLE
    /\ (InExtend /\ pc # "SmartDoor_open_2") => currentState = CLOSED_UNLOCKED
    /\ pc = "SmartDoor_open_2" => currentPosition = POS_EXTENDED
    /\ InRetract => (currentAngle = pre.currentAngle /\ currentState = CLOSING)
    /\ (pc = "SmartDoor_lockDoor" /\ Head(stack) = "SmartDoor_close_2") =>
          /\ currentPosition = POS_RETRACTED
          /\ currentState = CLOSED_UNLOCKED
    /\ pc = "SmartDoor_close_2" =>
          currentPosition = POS_RETRACTED /\ currentAngle = LOCKED_ANGLE

\* C14 happens: close() of an OPEN door is about to lock, the actuator
\* retracted.
C14_Witness ==
    /\ pc = "SmartDoor_lockDoor" /\ Head(stack) = "SmartDoor_close_2"
    /\ pre.currentState = OPEN /\ pre.currentPosition = POS_EXTENDED

\* C15: a close() that fails the safety gate changes nothing and returns
\* false.
C15_FailedCloseChangesNothing ==
    (op = "close" /\ ~PreSafe) =>
        /\ currentState = pre.currentState
        /\ openAttempts = pre.openAttempts
        /\ isSystemReady = pre.isSystemReady
        /\ currentAngle = pre.currentAngle
        /\ currentPosition = pre.currentPosition
        /\ contractorState = pre.contractorState
        /\ pc = "idle" => ret = FALSE

\* C15 happens: close() has failed the gate on a door not yet at the
\* attempt threshold, with failed open() calls counted.
C15_Witness ==
    /\ Completed("close") /\ ~PreSafe
    /\ openAttempts = MAX_ATTEMPTS - 1 /\ currentState # ERROR_STATE

\* C16: emergencyStop() changes neither the lock angle, the calibration flag,
\* the actuator position, openAttempts nor isSystemReady, and changes the
\* actuator state only if it was EXTENDING or RETRACTING.
C16_EmergencyStopFrame ==
    op = "emergencyStop" =>
        /\ currentAngle = pre.currentAngle
        /\ isCalibrated = pre.isCalibrated
        /\ currentPosition = pre.currentPosition
        /\ openAttempts = pre.openAttempts
        /\ isSystemReady = pre.isSystemReady
        /\ isInitialized = pre.isInitialized
        /\ \/ contractorState = pre.contractorState
           \/ pre.contractorState \in {EXTENDING, RETRACTING}

\* C16 happens: emergencyStop() has changed the door state of a locked door
\* with failed attempts counted.
C16_Witness ==
    /\ Completed("emergencyStop") /\ currentState # pre.currentState
    /\ openAttempts > 0

\* C19 as stated: between public calls, openAttempts >= 3 implies ERROR_STATE.
C19_ThresholdImpliesError ==
    (pc = "idle" /\ openAttempts >= MAX_ATTEMPTS) => currentState = ERROR_STATE

\* C19, amended: between public calls, openAttempts >= 3 implies ERROR_STATE
\* unless the last call was emergencyStop(), or a close() or reset() that
\* failed and left the CLOSED_UNLOCKED state an emergencyStop() had set.
C19_ThresholdImpliesErrorUnlessStopped ==
    (pc = "idle" /\ openAttempts >= MAX_ATTEMPTS) =>
        \/ currentState = ERROR_STATE
        \/ op = "emergencyStop"
        \/ /\ op \in {"close", "reset"}
           /\ ret = FALSE
           /\ pre.currentState = CLOSED_UNLOCKED
           /\ currentState = CLOSED_UNLOCKED

\* C19 happens: an open() at the threshold, called after emergencyStop() had
\* left ERROR_STATE, has forced ERROR_STATE again.
C19_Witness ==
    /\ Completed("open") /\ openAttempts >= MAX_ATTEMPTS
    /\ pre.currentState = CLOSED_UNLOCKED /\ currentState = ERROR_STATE

\* C20: between public calls the door is never OPENING or CLOSING and the
\* actuator is RETRACTED or EXTENDED; so Contractor::stop(), called by
\* emergencyStop(), finds a settled actuator and leaves its state.
C20_SettledBetweenCalls ==
    /\ pc = "idle" =>
          /\ currentState \in {CLOSED_LOCKED, CLOSED_UNLOCKED, OPEN, ERROR_STATE}
          /\ contractorState \in {RETRACTED, EXTENDED}
    /\ pc = "Contractor_stop" => contractorState \in {RETRACTED, EXTENDED}
    /\ pc = "SmartDoor_emergencyStop_1" => contractorState = pre.contractorState

\* C20 happens: emergencyStop() has returned on a door whose actuator was
\* EXTENDED.
C20_Witness == Completed("emergencyStop") /\ pre.contractorState = EXTENDED

\* C21: ERROR_STATE occurs only while initialize() has never returned true.
\* Between public calls a ready controller is not in ERROR_STATE, has its
\* servo calibrated and its actuator ready, and has openAttempts = 0; a
\* controller that was ready when a call was made, or on which initialize()
\* has ever returned true, is ready when the call has returned.
C21_ReadyExcludesErrorAndStays ==
    /\ currentState = ERROR_STATE => ~everInit
    /\ (pc = "idle" /\ isSystemReady) =>
          /\ currentState # ERROR_STATE
          /\ isCalibrated
          /\ Contractor_isReady
          /\ openAttempts = 0
    /\ (pc = "idle" /\ op # "none" /\ pre.isSystemReady) => isSystemReady
    /\ (pc = "idle" /\ everInit) => isSystemReady

\* C21 happens: reset() of a ready controller with the door OPEN, which
\* clears isSystemReady on its way, has returned.
C21_Witness ==
    /\ Completed("reset") /\ pre.isSystemReady /\ pre.currentState = OPEN
    /\ gateFails > 0

\* C22: open() returns true exactly when the safety gate held when it was
\* called, and so does close(); the calls open() and close() make after the
\* gate (unlockDoor, extend, retract, lockDoor) always return true, so the
\* branches that force ERROR_STATE after the gate are never taken.
C22_GateIsTheOnlyFailure ==
    /\ Completed("open") => (ret = TRUE <=> PreSafe)
    /\ Completed("close") => (ret = TRUE <=> PreSafe)
    /\ pc \in {"SmartDoor_open_1", "SmartDoor_open_2",
               "SmartDoor_close_1", "SmartDoor_close_2"} => ret = TRUE
    /\ (op \in {"open", "close"} /\ PreSafe) => currentState # ERROR_STATE

\* C22 happens: open() has returned true on a door that was CLOSED_UNLOCKED.
C22_Witness ==
    /\ Completed("open") /\ PreSafe /\ ret = TRUE
    /\ pre.currentState = CLOSED_UNLOCKED /\ currentState = OPEN

---------------------------------------------------------------------------
\* Properties of the Contractor on its own (SpecContractor).

\* C17: between public calls of the Contractor, position is 100 exactly when
\* the state is EXTENDED and 0 exactly when it is RETRACTED; and no step takes
\* the state from RETRACTED straight to EXTENDED or from EXTENDED straight to
\* RETRACTED.
C17_PositionMatchesStateAndNoJump ==
    /\ [](pc = "idle" =>
            /\ (currentPosition = POS_EXTENDED <=> contractorState = EXTENDED)
            /\ (currentPosition = POS_RETRACTED <=> contractorState = RETRACTED))
    /\ [][ /\ contractorState = RETRACTED => contractorState' # EXTENDED
           /\ contractorState = EXTENDED => contractorState' # RETRACTED ]_vars

\* C17 happens: retract() has returned on an actuator that was EXTENDED.
C17_Witness ==
    /\ Completed("Contractor_retract")
    /\ pre.contractorState = EXTENDED /\ contractorState = RETRACTED

\* C18: extend() and retract() on an actuator never initialized change
\* neither state nor position and return false; on an initialized actuator a
\* retract() called right after an extend() ends at position 0 in RETRACTED.
C18_UninitializedFailsAndRoundTrip ==
    /\ (op \in {"Contractor_extend", "Contractor_retract"} /\ ~pre.isInitialized) =>
          /\ contractorState = pre.contractorState
          /\ currentPosition = pre.currentPosition
          /\ pc = "idle" => ret = FALSE
    /\ (Completed("Contractor_retract") /\ pre.prevOp = "Contractor_extend"
          /\ pre.isInitialized) =>
          /\ pre.contractorState = EXTENDED /\ pre.currentPosition = POS_EXTENDED
          /\ ret = TRUE
          /\ currentPosition = POS_RETRACTED
          /\ contractorState = RETRACTED

\* C18 happens: retract() has returned after an extend() on an initialized
\* actuator.
C18_Witness ==
    /\ Completed("Contractor_retract") /\ pre.prevOp = "Contractor_extend"
    /\ pre.isInitialized /\ pre.prevRet = TRUE

=============================================================================
